---- MODULE Spec2Model ----
(***************************************************************************)
(* Vector-collection management layer of src/vector_store.py               *)
(* (QdrantVectorStore): collections pinned to one embedding model, the      *)
(* reserved metadata point (id 0), dimension reconciliation, insertion     *)
(* with timestamp-based ids, similarity search and listing.                *)
(*                                                                         *)
(* Request handlers run concurrently (one per process of Procs) and are    *)
(* cut into steps at the calls to the vector index: between two steps of   *)
(* one handler any step of another handler may happen.  The index and the  *)
(* embedding API are external collaborators: a write to the index          *)
(* (create_collection, upsert, delete_collection) and an embedding call    *)
(* either succeed or raise, chosen nondeterministically; a read of the     *)
(* index answers from the current contents and raises only when the        *)
(* collection does not exist.  The index stores the vector it is given:    *)
(* it is not modelled as checking the vector's length.                     *)
(*                                                                         *)
(* Three print calls of vector_store.py (lines 496, 1037 and 1076) format  *)
(* a string that starts with the two lone surrogates "\ud83d\udd04".       *)
(* Whether print raises UnicodeEncodeError on it depends on the error      *)
(* handler of the process's stdout (it raises with "strict" and            *)
(* "surrogateescape", the defaults), which is fixed when the process       *)
(* starts: both kinds of process are modelled.                             *)
(*                                                                         *)
(* A vector is represented by its length and by whether it is the zero     *)
(* vector; a payload is a function from its keys to their values, as the   *)
(* Python dict it models.                                                  *)
(***************************************************************************)
EXTENDS Integers, Sequences, FiniteSets, TLC

(***************************************************************************)
(* Bounds of the model.                                                    *)
(***************************************************************************)
MaxBatch == 2   \* documents in one insert_documents call
MaxClock == 2   \* last value of the millisecond clock
MaxOps == 3     \* invocations of writing handlers, and registry changes, in one run
MaxScore == 2   \* similarity scores and thresholds range over 0..MaxScore
MaxLimit == 2   \* largest limit a listing request gives, beside the default
MaxLen == 3     \* characters of a text
MaxTexts == 3   \* texts of one get_embeddings call
MaxTopK == 2    \* largest top_k of a search

Procs == {1, 2}
Names == {"docs"}
FileNames == {"a.txt", "b.txt"}
FileOrder(f) == IF f = "a.txt" THEN 1 ELSE 2

(***************************************************************************)
(* config.EMBEDDING_MODELS, DEFAULT_EMBEDDING_MODEL and the literals of     *)
(* vector_store.py.                                                        *)
(***************************************************************************)
OpenAIDimension == 1536
GeminiDimension == 3072
FallbackDimension == 1536
MetadataId == 0
ScrollDefaultLimit == 10      \* client.scroll(collection_name) without a limit
ScrollCountLimit == 10000     \* _get_real_document_count
ListLimit == 1000             \* list_collection_documents(collection_name, limit=1000)

Models == {"openai", "gemini"}
UnknownModelId == "unknown"   \* a model id that is no key of the registry
NoModel == ""                 \* embedding_model=None
DEFAULT_EMBEDDING_MODEL == "openai"
DimValues == {OpenAIDimension, GeminiDimension}

EMBEDDING_MODELS_initial ==
    [m \in Models |->
        [dimension |-> IF m = "openai" THEN OpenAIDimension ELSE GeminiDimension]]

(***************************************************************************)
(* Values.                                                                 *)
(***************************************************************************)
None == << >>   \* Python None and the empty dict: both are falsy

ZeroVector(dimension) == [dim |-> dimension, zero |-> TRUE]    \* [0.0] * dimension
EmbeddingVector(dimension) == [dim |-> dimension, zero |-> FALSE]

PointStruct(id, vector, payload) == [id |-> id, vector |-> vector, payload |-> payload]

NoPoints == [i \in {} |-> None]
AbsentCollection == [exists |-> FALSE, size |-> 0, points |-> NoPoints]

Min(a, b) == IF a <= b THEN a ELSE b

VARIABLES
    EMBEDDING_MODELS,  \* the model registry: model id -> its config
    clock,             \* time.time() in milliseconds
    collections,       \* the vector index: name -> collection
    proc,              \* each handler's position and local variables
    ret,               \* what the handler that just finished returned
    started,           \* number of invocations so far
    stdout_errors,     \* the error handler of the process's sys.stdout
    texts              \* the texts given to the text functions (TextSpec)

vars == <<EMBEDDING_MODELS, clock, collections, proc, ret, started, stdout_errors,
          texts>>

\* print of a string that holds lone surrogates: stdout encodes it with its
\* error handler, and "strict" (the default) raises UnicodeEncodeError.
StdoutErrors == {"strict", "backslashreplace"}
PrintsSurrogates == stdout_errors # "strict"

(***************************************************************************)
(* The vector index (the qdrant client's calls).                           *)
(***************************************************************************)
\* client.upsert(collection_name, points): each point replaces the point of
\* the same id, in the order given.
RECURSIVE UpsertPoints(_, _)
UpsertPoints(points, new) ==
    IF new = << >> THEN points
    ELSE LET p == Head(new)
             stored == [vector |-> p.vector, payload |-> p.payload]
         IN UpsertPoints([i \in DOMAIN points \cup {p.id} |->
                             IF i = p.id THEN stored ELSE points[i]],
                         Tail(new))

Upsert(index, name, new) ==
    [index EXCEPT ![name].points = UpsertPoints(@, new)]

CreateIndexCollection(index, name, dimension) ==
    [index EXCEPT ![name] = [exists |-> TRUE, size |-> dimension, points |-> NoPoints]]

DeleteIndexCollection(index, name) ==
    [index EXCEPT ![name] = AbsentCollection]

\* client.retrieve(collection_name, ids=[0])
Retrieve(index, name, id) ==
    IF index[name].exists /\ id \in DOMAIN index[name].points
    THEN <<index[name].points[id]>>
    ELSE << >>

\* The ids of a collection in increasing order.
SortedIds(ids) ==
    IF ids = {} THEN << >>
    ELSE LET last == CHOOSE i \in ids : \A j \in ids : j <= i
             Stored(i) == i \in ids
         IN SelectSeq([k \in 1..(last + 1) |-> k - 1], Stored)

\* client.scroll(collection_name, limit): the first `limit` points in the
\* order of their ids (one page; the handlers never ask for the next one).
Scroll(index, name, limit) ==
    LET ids == SortedIds(DOMAIN index[name].points)
        points == [k \in 1..Len(ids) |->
                      [id |-> ids[k], payload |-> index[name].points[ids[k]].payload]]
    IN SubSeq(points, 1, Min(limit, Len(ids)))

(***************************************************************************)
(* Helpers of QdrantVectorStore.                                           *)
(***************************************************************************)
get_collection_metadata(index, collection_name) ==
    LET search_result == Retrieve(index, collection_name, MetadataId)
    IN IF Len(search_result) > 0 THEN search_result[1].payload ELSE None

get_model_dimension(registry, embedding_model) ==
    LET dimension_value ==
            IF embedding_model \in DOMAIN registry
            THEN registry[embedding_model].dimension
            ELSE registry[DEFAULT_EMBEDDING_MODEL].dimension
    IN IF dimension_value > 0 THEN dimension_value ELSE FallbackDimension

\* A faulty variant: the dimensions are reported but not compared.
check_dimension_compatibility_lenient(index, registry, collection_name, embedding_model) ==
    LET metadata == get_collection_metadata(index, collection_name)
    IN IF metadata = None
       THEN [compatible |-> FALSE, error |-> "Collection nao encontrada"]
       ELSE IF embedding_model \notin DOMAIN registry
       THEN [compatible |-> FALSE, error |-> "Modelo nao encontrado"]
       ELSE [compatible |-> TRUE,
             collection_dimensions |-> metadata.model_config.dimension,
             current_dimensions |-> registry[embedding_model].dimension,
             collection_model |-> metadata.embedding_model]

check_dimension_compatibility(index, registry, collection_name, embedding_model) ==
    LET metadata == get_collection_metadata(index, collection_name)
    IN IF metadata = None
       THEN [compatible |-> FALSE, error |-> "Collection nao encontrada"]
       ELSE IF embedding_model \notin DOMAIN registry
       THEN [compatible |-> FALSE, error |-> "Modelo nao encontrado"]
       ELSE LET collection_dimensions == metadata.model_config.dimension
                current_dimensions == registry[embedding_model].dimension
            IN [compatible |-> collection_dimensions = current_dimensions,
                collection_dimensions |-> collection_dimensions,
                current_dimensions |-> current_dimensions,
                collection_model |-> metadata.embedding_model]

(***************************************************************************)
(* Handlers' local state.                                                  *)
(***************************************************************************)
Idle ==
    [pc |-> "idle", name |-> "", model |-> NoModel, base_timestamp |-> 0,
     points |-> << >>, k |-> 0, metadata |-> None, count |-> 0, error |-> "",
     allocated |-> FALSE]

NoRet == [op |-> "none"]

\* A handler takes a step only once the previous return was delivered.
At(p, label) ==
    /\ ret = NoRet
    /\ proc[p].pc = label

\* A request is served by the first free process (the processes are
\* interchangeable).
Free(p) ==
    /\ At(p, "idle")
    /\ \A q \in Procs : q < p => proc[q].pc # "idle"

Invoke(p) ==
    /\ Free(p)
    /\ started < MaxOps
    /\ started' = started + 1

\* The caller receives what the handler returned or raised.
Deliver ==
    /\ ret # NoRet
    /\ ret' = NoRet
    /\ UNCHANGED <<texts, stdout_errors, EMBEDDING_MODELS, clock, collections, proc, started>>

\* metadata_point: the reserved point that holds the collection's metadata
MetadataPoint(registry, collection_name, embedding_model) ==
    LET model_config == registry[embedding_model]
        dimension == model_config.dimension
    IN PointStruct(MetadataId, ZeroVector(dimension),
                   [name |-> collection_name,
                    embedding_model |-> embedding_model,
                    document_count |-> 0,
                    model_config |-> model_config])

HasMetadataPoint(index, collection_name) ==
    get_collection_metadata(index, collection_name) # None

\* The collection create_collection leaves when both of its index calls succeed.
Created(registry, collection_name, embedding_model) ==
    [exists |-> TRUE, size |-> registry[embedding_model].dimension,
     points |-> UpsertPoints(NoPoints,
                    <<MetadataPoint(registry, collection_name, embedding_model)>>)]

\* The index outlives the process: when the store connects, a collection is
\* absent or is as an earlier create_collection left it.
Init ==
    /\ EMBEDDING_MODELS = EMBEDDING_MODELS_initial
    /\ clock = 1
    /\ collections \in
          [Names -> {AbsentCollection} \cup
                    {Created(EMBEDDING_MODELS_initial, c, m) : c \in Names, m \in Models}]
    /\ \A c \in Names :
          HasMetadataPoint(collections, c) =>
              get_collection_metadata(collections, c).name = c
    /\ proc = [p \in Procs |-> Idle]
    /\ ret = NoRet
    /\ started = 0
    /\ stdout_errors \in StdoutErrors
    /\ texts = << >>

(***************************************************************************)
(* The registry.                                                           *)
(***************************************************************************)
\* A deployment with another configured dimension for a model: it happens
\* while no request is being served.
ChangeRegistryDimension ==
    /\ ret = NoRet
    /\ \A p \in Procs : proc[p].pc = "idle"
    /\ started < MaxOps
    /\ started' = started + 1
    /\ \E m \in Models, d \in DimValues :
          /\ d # EMBEDDING_MODELS[m].dimension
          /\ EMBEDDING_MODELS' = [EMBEDDING_MODELS EXCEPT ![m].dimension = d]
    /\ ret' = NoRet
    /\ UNCHANGED <<texts, stdout_errors, clock, collections, proc>>

(***************************************************************************)
(* create_collection                                                       *)
(***************************************************************************)
create_collection(p) ==
    /\ Invoke(p)
    /\ ret' = NoRet
    /\ UNCHANGED <<texts, stdout_errors, EMBEDDING_MODELS, clock>>
    /\ \E collection_name \in Names, embedding_model \in Models \cup {UnknownModelId},
          created \in BOOLEAN :
       IF embedding_model \notin DOMAIN EMBEDDING_MODELS
       THEN /\ proc' = [proc EXCEPT ![p] =
                    [Idle EXCEPT !.pc = "create_cleanup", !.name = collection_name,
                                 !.model = embedding_model, !.error = "UnknownModel"]]
            /\ UNCHANGED collections
       ELSE IF created /\ ~collections[collection_name].exists
       THEN /\ collections' = CreateIndexCollection(collections, collection_name,
                                  EMBEDDING_MODELS[embedding_model].dimension)
            /\ proc' = [proc EXCEPT ![p] =
                    [Idle EXCEPT !.pc = "create_metadata", !.name = collection_name,
                                 !.model = embedding_model, !.allocated = TRUE]]
       ELSE /\ proc' = [proc EXCEPT ![p] =
                    [Idle EXCEPT !.pc = "create_cleanup", !.name = collection_name,
                                 !.model = embedding_model,
                                 !.error = "RemoteCallFailure"]]
            /\ UNCHANGED collections

create_collection_metadata(p) ==
    /\ At(p, "create_metadata")
    /\ UNCHANGED <<texts, stdout_errors, EMBEDDING_MODELS, clock, started>>
    /\ \E upserted \in BOOLEAN :
       LET collection_name == proc[p].name
           embedding_model == proc[p].model
           metadata_point == MetadataPoint(EMBEDDING_MODELS, collection_name,
                                           embedding_model)
       IN IF upserted /\ collections[collection_name].exists
          THEN /\ collections' = Upsert(collections, collection_name, <<metadata_point>>)
               /\ proc' = [proc EXCEPT ![p] = Idle]
               /\ ret' = [op |-> "create", name |-> collection_name,
                          model |-> embedding_model, ok |-> TRUE, error |-> ""]
          ELSE /\ proc' = [proc EXCEPT ![p].pc = "create_cleanup",
                                       ![p].error = "RemoteCallFailure"]
               /\ ret' = NoRet
               /\ UNCHANGED collections

\* A faulty variant: a failure of the cleanup is what the caller is given.
CreateError_cleanup_surfaced(error, deleted) ==
    IF deleted THEN error ELSE "CleanupFailure"

\* raise e: the exception the handler caught is raised again, whatever the
\* cleanup met (its own exception is passed over).
CreateError(error, deleted) == error

\* The except branch: client.delete_collection is attempted, then the
\* exception is raised again.
create_collection_cleanup(p) ==
    /\ At(p, "create_cleanup")
    /\ UNCHANGED <<texts, stdout_errors, EMBEDDING_MODELS, clock, started>>
    /\ \E deleted \in BOOLEAN :
          /\ collections' = IF deleted
                            THEN DeleteIndexCollection(collections, proc[p].name)
                            ELSE collections
          /\ ret' = [op |-> "create", name |-> proc[p].name, model |-> proc[p].model,
                     ok |-> FALSE, error |-> CreateError(proc[p].error, deleted),
                     allocated |-> proc[p].allocated,
                     cleanup |-> IF deleted THEN "deleted" ELSE "failed"]
    /\ proc' = [proc EXCEPT ![p] = Idle]

(***************************************************************************)
(* delete_collection                                                       *)
(***************************************************************************)
\* _delete_collection_files: the blobs under the collection's prefix were
\* deleted, there were none (or no blob store is in use), or the blob store
\* raised; the last is caught and answered as 0 files.
FileOutcomes == {"deleted", "none", "failed"}

\* A faulty variant: a failure of the blob store fails the deletion.
DeleteReturn_files_required(collection_name, deleted, files) ==
    [op |-> "delete", name |-> collection_name,
     ok |-> deleted /\ files # "failed",
     error |-> IF deleted /\ files # "failed" THEN "" ELSE "RemoteCallFailure",
     files |-> IF deleted THEN files ELSE "not attempted"]

\* What delete_collection answers: True once the index call has returned,
\* whatever _delete_collection_files met; the index call's exception otherwise,
\* and then the blobs are not touched.
DeleteReturn(collection_name, deleted, files) ==
    [op |-> "delete", name |-> collection_name, ok |-> deleted,
     error |-> IF deleted THEN "" ELSE "RemoteCallFailure",
     files |-> IF deleted THEN files ELSE "not attempted"]

delete_collection(p) ==
    /\ Invoke(p)
    /\ UNCHANGED <<texts, stdout_errors, EMBEDDING_MODELS, clock, proc>>
    /\ \E collection_name \in Names, deleted \in BOOLEAN, files \in FileOutcomes :
          /\ collections' = IF deleted
                            THEN DeleteIndexCollection(collections, collection_name)
                            ELSE collections
          /\ ret' = DeleteReturn(collection_name, deleted, files)

(***************************************************************************)
(* insert_documents                                                        *)
(***************************************************************************)
\* unique_id = base_timestamp + i, for i = 1, 2, ... (enumerate(.., start=1))
\* Faulty variants: the ordinal is not added; the timestamp is not used.
UniqueId_without_ordinal(base_timestamp, i) == base_timestamp

UniqueId_ordinal_only(base_timestamp, i) == i

UniqueId(base_timestamp, i) == base_timestamp + i

\* The chunks of one source file, as document_processor makes them: the
\* i-th chunk has chunk_index i - 1 and all share the file name.
BuildPoints(base_timestamp, file_name, n, dimension) ==
    [i \in 1..n |->
        PointStruct(UniqueId(base_timestamp, i), EmbeddingVector(dimension),
                    [chunk_id |-> UniqueId(base_timestamp, i),
                     file_name_safe |-> file_name,
                     chunk_index |-> i - 1])]

\* committed: the points of the batch the individual upserts had stored when
\* the exception was raised
\* documents: len(documents); upserting: the exception was raised by an upsert
InsertError(p, collection_name, embedding_model, documents, error) ==
    /\ proc' = [proc EXCEPT ![p] = Idle]
    /\ ret' = [op |-> "insert", name |-> collection_name, model |-> embedding_model,
               documents |-> documents,
               ok |-> FALSE, error |-> error, value |-> FALSE,
               upserting |-> proc[p].pc # "idle",
               committed |-> IF proc[p].pc = "insert_retry" THEN proc[p].k - 1 ELSE 0]

InsertReturn(p, collection_name, embedding_model, documents, value) ==
    /\ proc' = [proc EXCEPT ![p] = Idle]
    /\ ret' = [op |-> "insert", name |-> collection_name, model |-> embedding_model,
               documents |-> documents,
               ok |-> TRUE, error |-> "", value |-> value]

\* The file names of the chunks stored or about to be stored.
UsedFileNames ==
    UNION {{collections[c].points[i].payload.file_name_safe :
               i \in DOMAIN collections[c].points \ {MetadataId}} : c \in Names}
    \cup UNION {{proc[q].points[i].payload.file_name_safe :
                    i \in DOMAIN proc[q].points} : q \in Procs}

\* File names are interchangeable: an upload is of a file already seen or of
\* the first one not seen yet.
NextFileNames ==
    LET unused == FileNames \ UsedFileNames
    IN (FileNames \cap UsedFileNames) \cup
       IF unused = {} THEN {}
       ELSE {CHOOSE f \in unused : \A g \in unused : FileOrder(f) <= FileOrder(g)}

\* A faulty variant: the upsert path is taken whatever the batch holds.
HasPoints_always(n) == TRUE

\* if points: a point was built for each of the n documents
HasPoints(n) == n > 0

\* now: what time.time() answers when the batch's base timestamp is taken,
\* the clock never running backwards
insert_documents(p) ==
    /\ Invoke(p)
    /\ UNCHANGED <<texts, stdout_errors, EMBEDDING_MODELS, collections>>
    /\ \E collection_name \in Names, model_arg \in Models \cup {UnknownModelId, NoModel},
          n \in 0..MaxBatch :
       LET metadata == get_collection_metadata(collections, collection_name)
           embedding_model == IF model_arg = NoModel /\ metadata # None
                              THEN metadata.embedding_model ELSE model_arg
           compatibility == check_dimension_compatibility(
                                collections, EMBEDDING_MODELS, collection_name,
                                embedding_model)
       IN IF model_arg = NoModel /\ metadata = None
          THEN /\ InsertError(p, collection_name, model_arg, n, "NotFound")
               /\ UNCHANGED clock
          ELSE IF ~compatibility.compatible
          THEN /\ InsertError(p, collection_name, embedding_model, n,
                              IF PrintsSurrogates THEN "IncompatibleDimension"
                              ELSE "UnicodeEncodeError")
               /\ UNCHANGED clock
          ELSE \E embedded \in BOOLEAN :
                  IF ~HasPoints(n)
                  THEN /\ InsertReturn(p, collection_name, embedding_model, n, FALSE)
                       /\ UNCHANGED clock
                  ELSE IF ~embedded
                  THEN /\ InsertError(p, collection_name, embedding_model, n,
                                      "RemoteCallFailure")
                       /\ UNCHANGED clock
                  ELSE \E file_name \in NextFileNames, now \in clock..MaxClock :
                          LET base_timestamp == now
                              points == BuildPoints(
                                  base_timestamp, file_name, n,
                                  EMBEDDING_MODELS[embedding_model].dimension)
                          IN /\ clock' = now
                             /\ proc' = [proc EXCEPT ![p] =
                                   [Idle EXCEPT !.pc = "insert_upsert",
                                                !.name = collection_name,
                                                !.model = embedding_model,
                                                !.base_timestamp = base_timestamp,
                                                !.points = points]]
                             /\ ret' = NoRet

\* A faulty variant: a failed batch upsert is never retried.
RetriesIndividually_never(points) == FALSE

\* if len(points) > 1: only a batch of several points is upserted again, point
\* by point, when its upsert fails.
RetriesIndividually(points) == Len(points) > 1

insert_upsert(p) ==
    /\ At(p, "insert_upsert")
    /\ UNCHANGED <<texts, stdout_errors, EMBEDDING_MODELS, clock, started>>
    /\ \E upserted \in BOOLEAN :
       LET collection_name == proc[p].name
           points == proc[p].points
       IN IF upserted /\ collections[collection_name].exists
          THEN /\ collections' = Upsert(collections, collection_name, points)
               /\ proc' = [proc EXCEPT ![p].pc = "insert_count"]
               /\ ret' = NoRet
          ELSE IF RetriesIndividually(points)
          THEN /\ proc' = [proc EXCEPT ![p].pc = "insert_retry", ![p].k = 1]
               /\ ret' = NoRet
               /\ UNCHANGED collections
          ELSE /\ InsertError(p, collection_name, proc[p].model, Len(points),
                              "RemoteCallFailure")
               /\ UNCHANGED collections

insert_retry(p) ==
    /\ At(p, "insert_retry")
    /\ UNCHANGED <<texts, stdout_errors, EMBEDDING_MODELS, clock, started>>
    /\ \E upserted \in BOOLEAN :
       LET collection_name == proc[p].name
           points == proc[p].points
           k == proc[p].k
       IN IF upserted /\ collections[collection_name].exists
          THEN /\ collections' = Upsert(collections, collection_name, <<points[k]>>)
               /\ proc' = IF k < Len(points)
                          THEN [proc EXCEPT ![p].k = k + 1]
                          ELSE [proc EXCEPT ![p].pc = "insert_count"]
               /\ ret' = NoRet
          ELSE /\ InsertError(p, collection_name, proc[p].model, Len(points),
                              "RemoteCallFailure")
               /\ UNCHANGED collections

\* _update_collection_document_count(collection_name, len(points)): the read
\* and the print after it, whose exception is swallowed with the update
insert_count(p) ==
    /\ At(p, "insert_count")
    /\ UNCHANGED <<texts, stdout_errors, EMBEDDING_MODELS, clock, started, collections>>
    /\ LET metadata == get_collection_metadata(collections, proc[p].name)
       IN IF metadata = None \/ ~PrintsSurrogates
          THEN InsertReturn(p, proc[p].name, proc[p].model, Len(proc[p].points), TRUE)
          ELSE /\ proc' = [proc EXCEPT ![p].pc = "insert_count_write",
                                       ![p].metadata = metadata]
               /\ ret' = NoRet

\* A faulty variant: the zero vector has the dimension the metadata declares.
CountPoint_declared_dimension(registry, metadata, new_count) ==
    PointStruct(MetadataId, ZeroVector(metadata.model_config.dimension),
                [metadata EXCEPT !.document_count = new_count])

\* the point that rewrites the metadata with another document_count
CountPoint(registry, metadata, new_count) ==
    LET embedding_model == metadata.embedding_model
        dimension == IF embedding_model # NoModel
                     THEN get_model_dimension(registry, embedding_model)
                     ELSE FallbackDimension
    IN PointStruct(MetadataId, ZeroVector(dimension),
                   [metadata EXCEPT !.document_count = new_count])

\* _update_collection_document_count: the write; its failure is only printed
insert_count_write(p) ==
    /\ At(p, "insert_count_write")
    /\ UNCHANGED <<texts, stdout_errors, EMBEDDING_MODELS, clock, started>>
    /\ \E upserted \in BOOLEAN :
       LET collection_name == proc[p].name
           metadata == proc[p].metadata
           increment == Len(proc[p].points)
           updated_point == CountPoint(EMBEDDING_MODELS, metadata,
                                       metadata.document_count + increment)
       IN /\ collections' = IF upserted /\ collections[collection_name].exists
                            THEN Upsert(collections, collection_name, <<updated_point>>)
                            ELSE collections
          /\ InsertReturn(p, collection_name, proc[p].model, Len(proc[p].points),
                          TRUE)

(***************************************************************************)
(* update_collection_dimensions (resync)                                   *)
(***************************************************************************)
ResyncReturn(p, collection_name, success, old_dimension, new_dimension) ==
    /\ proc' = [proc EXCEPT ![p] = Idle]
    /\ ret' = [op |-> "resync", name |-> collection_name, ok |-> success,
               old_dimension |-> old_dimension, new_dimension |-> new_dimension]

\* updated_point: the metadata with the registry's current model_config, under
\* a zero vector of the model's current dimension
\* A faulty variant: the stored model_config is written back as it was read.
DimensionsPoint_keeps_config(registry, metadata) ==
    PointStruct(MetadataId,
                ZeroVector(get_model_dimension(registry, metadata.embedding_model)),
                metadata)

\* A faulty variant: the rewrite records the default model.
DimensionsPoint_default_model(registry, metadata) ==
    PointStruct(MetadataId,
                ZeroVector(get_model_dimension(registry, metadata.embedding_model)),
                [metadata EXCEPT !.model_config = registry[metadata.embedding_model],
                                 !.embedding_model = DEFAULT_EMBEDDING_MODEL])

\* A faulty variant: the rewrite starts the document count again.
DimensionsPoint_resets_count(registry, metadata) ==
    PointStruct(MetadataId,
                ZeroVector(get_model_dimension(registry, metadata.embedding_model)),
                [metadata EXCEPT !.model_config = registry[metadata.embedding_model],
                                 !.document_count = 0])

DimensionsPoint(registry, metadata) ==
    LET embedding_model == metadata.embedding_model
        current_dimension == get_model_dimension(registry, embedding_model)
        updated_model_config == registry[embedding_model]
    IN PointStruct(MetadataId, ZeroVector(current_dimension),
                   [metadata EXCEPT !.model_config = updated_model_config])

update_collection_dimensions(p) ==
    /\ Invoke(p)
    /\ UNCHANGED <<texts, stdout_errors, EMBEDDING_MODELS, clock, collections>>
    /\ \E collection_name \in Names :
       LET metadata == get_collection_metadata(collections, collection_name)
       IN IF metadata = None \/ metadata.embedding_model = NoModel
          THEN ResyncReturn(p, collection_name, FALSE, 0, 0)
          ELSE /\ proc' = [proc EXCEPT ![p] =
                     [Idle EXCEPT !.pc = "resync_write", !.name = collection_name,
                                  !.metadata = metadata]]
               /\ ret' = NoRet

update_collection_dimensions_write(p) ==
    /\ At(p, "resync_write")
    /\ UNCHANGED <<texts, stdout_errors, EMBEDDING_MODELS, clock, started>>
    /\ \E upserted \in BOOLEAN :
       LET collection_name == proc[p].name
           metadata == proc[p].metadata
           embedding_model == metadata.embedding_model
           current_dimension == get_model_dimension(EMBEDDING_MODELS, embedding_model)
           old_dimension == metadata.model_config.dimension
       IN IF embedding_model \in DOMAIN EMBEDDING_MODELS /\ upserted
             /\ collections[collection_name].exists
          THEN LET updated_point == DimensionsPoint(EMBEDDING_MODELS, metadata)
               IN /\ collections' = Upsert(collections, collection_name,
                                           <<updated_point>>)
                  /\ ResyncReturn(p, collection_name, TRUE, old_dimension,
                                  current_dimension)
          ELSE /\ ResyncReturn(p, collection_name, FALSE, 0, 0)
               /\ UNCHANGED collections

(***************************************************************************)
(* _recalculate_collection_document_count                                  *)
(***************************************************************************)
\* real_count: the points of the scrolled page that are not the metadata
RealCount(page) == Cardinality({k \in DOMAIN page : page[k].id # MetadataId})

RecalculateReturn(p, collection_name) ==
    /\ proc' = [proc EXCEPT ![p] = Idle]
    /\ ret' = [op |-> "recalculate", name |-> collection_name, ok |-> TRUE]

recalculate_collection_document_count(p) ==
    /\ Invoke(p)
    /\ UNCHANGED <<texts, stdout_errors, EMBEDDING_MODELS, clock, collections>>
    /\ \E collection_name \in Names :
          IF ~collections[collection_name].exists
          THEN RecalculateReturn(p, collection_name)
          ELSE /\ proc' = [proc EXCEPT ![p] =
                     [Idle EXCEPT !.pc = "recalculate_read", !.name = collection_name,
                                  !.count = RealCount(Scroll(collections, collection_name,
                                                             ScrollDefaultLimit))]]
               /\ ret' = NoRet

recalculate_read(p) ==
    /\ At(p, "recalculate_read")
    /\ UNCHANGED <<texts, stdout_errors, EMBEDDING_MODELS, clock, started, collections>>
    /\ LET metadata == get_collection_metadata(collections, proc[p].name)
       IN IF metadata = None \/ ~PrintsSurrogates
          THEN RecalculateReturn(p, proc[p].name)
          ELSE /\ proc' = [proc EXCEPT ![p].pc = "recalculate_write",
                                       ![p].metadata = metadata]
               /\ ret' = NoRet

recalculate_write(p) ==
    /\ At(p, "recalculate_write")
    /\ UNCHANGED <<texts, stdout_errors, EMBEDDING_MODELS, clock, started>>
    /\ \E upserted \in BOOLEAN :
       LET collection_name == proc[p].name
           updated_point == CountPoint(EMBEDDING_MODELS, proc[p].metadata, proc[p].count)
       IN /\ collections' = IF upserted /\ collections[collection_name].exists
                            THEN Upsert(collections, collection_name, <<updated_point>>)
                            ELSE collections
          /\ RecalculateReturn(p, collection_name)

(***************************************************************************)
(* The handlers that only read the index: what each answers from given     *)
(* index contents.                                                         *)
(***************************************************************************)
\* payload.get(key, default)
PayloadGet(payload, key, default) ==
    IF key \in DOMAIN payload THEN payload[key] ELSE default

\* the name a point is counted under by _get_real_document_count
CountedFileName(point) ==
    PayloadGet(point.payload, "file_name_safe",
               PayloadGet(point.payload, "file_name", "doc_" \o ToString(point.id)))

\* A faulty variant: the cached document_count is answered instead of a scan.
get_real_document_count_cached(index, collection_name) ==
    LET metadata == get_collection_metadata(index, collection_name)
        cached == IF metadata = None THEN 0 ELSE metadata.document_count
    IN [documents |-> cached, chunks |-> cached]

\* _get_real_document_count: unique documents and chunks of one scrolled page
get_real_document_count(index, collection_name) ==
    IF ~index[collection_name].exists
    THEN [documents |-> 0, chunks |-> 0]
    ELSE LET page == Scroll(index, collection_name, ScrollCountLimit)
             counted == {k \in DOMAIN page : page[k].id # MetadataId}
             unique_documents == {CountedFileName(page[k]) : k \in counted}
         IN [documents |-> Cardinality(unique_documents),
             chunks |-> Cardinality(counted)]

\* list_collections: one entry for each collection of the index
list_collections(index) ==
    [collection_name \in {c \in DOMAIN index : index[c].exists} |->
        LET metadata == get_collection_metadata(index, collection_name)
            counts == get_real_document_count(index, collection_name)
        IN [name |-> collection_name,
            embedding_model |-> IF metadata # None
                                THEN PayloadGet(metadata, "embedding_model", "unknown")
                                ELSE "unknown",
            document_count |-> counts.documents,
            chunk_count |-> counts.chunks,
            count |-> counts.documents,
            model_config |-> IF metadata # None
                             THEN PayloadGet(metadata, "model_config", None)
                             ELSE None]]

\* sorted(chunks, key=chunk_index): Python's sort is stable
SortedByChunkIndex(chunks) ==
    LET Before(i, j) ==
            \/ chunks[i].chunk_index < chunks[j].chunk_index
            \/ chunks[i].chunk_index = chunks[j].chunk_index /\ i < j
        Rank(j) == Cardinality({i \in DOMAIN chunks : Before(i, j)}) + 1
        sorted == [k \in DOMAIN chunks |->
                      chunks[CHOOSE j \in DOMAIN chunks : Rank(j) = k]]
    IN SubSeq(sorted, 1, Len(chunks))

\* The dict unique_documents that list_collection_documents fills from one
\* scrolled page (limit is 1000 unless the caller gives another): the metadata
\* point is skipped, and each file name holds its chunks in page order.
unique_documents(index, collection_name, limit) ==
    LET page == Scroll(index, collection_name, limit)
        FileName(point) ==
            PayloadGet(point.payload, "file_name_safe", "Documento sem nome")
        Listed(point) == point.id # MetadataId
        listed == SelectSeq(page, Listed)
        file_names == {FileName(listed[k]) : k \in DOMAIN listed}
    IN [file_name \in file_names |->
           LET Mine(point) == FileName(point) = file_name
               mine == SelectSeq(listed, Mine)
               Chunk(k) == [chunk_index |-> PayloadGet(mine[k].payload,
                                                       "chunk_index", 0),
                            chunk_id |-> PayloadGet(mine[k].payload, "chunk_id",
                                                    "chunk")]
           IN [name |-> file_name, total_chunks |-> Len(mine),
               chunks |-> SubSeq([k \in DOMAIN mine |-> Chunk(k)], 1, Len(mine))]]

\* list_collection_documents: the documents of unique_documents, the chunks
\* of each sorted by chunk_index
list_collection_documents(index, collection_name, limit) ==
    LET documents == unique_documents(index, collection_name, limit)
    IN [file_name \in DOMAIN documents |->
           [documents[file_name] EXCEPT !.chunks = SortedByChunkIndex(@)]]

\* What a call of list_collection_documents ends with: client.scroll raises
\* on a collection the index does not hold, and the handler raises it again.
ListDocumentsReturn(index, collection_name, limit) ==
    IF index[collection_name].exists
    THEN [ok |-> TRUE, error |-> "",
          documents |-> list_collection_documents(index, collection_name, limit)]
    ELSE [ok |-> FALSE, error |-> "NotFound", documents |-> << >>]

\* get_collection_info: the fields of the metadata, None when there is none.
get_collection_info(index, collection_name) ==
    LET metadata == get_collection_metadata(index, collection_name)
    IN IF metadata # None
       THEN [name |-> collection_name,
             embedding_model |-> PayloadGet(metadata, "embedding_model", None),
             document_count |-> PayloadGet(metadata, "document_count", 0),
             model_config |-> PayloadGet(metadata, "model_config", None)]
       ELSE None

\* The limit of GET /api/collections/<name>/documents: the request's, or 1000.
RequestLimits == (1..MaxLimit) \cup {ListLimit}

(***************************************************************************)
(* search_similar                                                          *)
(***************************************************************************)
\* A similarity score, and a threshold, in units of 1 / MaxScore.
Scores == 0..MaxScore

\* A faulty variant: the search is sent without query_filter.
SearchFilter_absent(index, collection_name) ==
    DOMAIN index[collection_name].points

\* query_filter: must_not (payload "name" matches collection_name); the
\* points the index ranks
SearchFilter(index, collection_name) ==
    {i \in DOMAIN index[collection_name].points :
        LET payload == index[collection_name].points[i].payload
        IN ~("name" \in DOMAIN payload /\ payload.name = collection_name)}

\* client.search(limit=top_k, query_filter=...): what the index may answer,
\* the scores being its own: at most `limit` distinct points that pass the
\* filter, by decreasing score
IndexSearchAnswers(index, collection_name, limit) ==
    LET candidates == SearchFilter(index, collection_name)
        length == Min(limit, Cardinality(candidates))
    IN {hits \in [1..length -> [id : candidates, score : Scores]] :
           \A i, j \in 1..length :
               i < j => hits[i].id # hits[j].id /\ hits[i].score >= hits[j].score}

\* A faulty variant: similarity_threshold is ignored.
search_results_unfiltered(search_result, similarity_threshold) ==
    [k \in DOMAIN search_result |->
        [id |-> search_result[k].id, score |-> search_result[k].score,
         similarity_percentage |-> search_result[k].score * 100]]

\* the loop over search_result: the points at or above the threshold
search_results(search_result, similarity_threshold) ==
    LET Kept(point) == point.score * 100 >= similarity_threshold * 100
        kept == SelectSeq(search_result, Kept)
    IN [k \in DOMAIN kept |->
           [id |-> kept[k].id, score |-> kept[k].score,
            similarity_percentage |-> kept[k].score * 100]]

SearchReturn(collection_name, top_k, similarity_threshold, error, search_result) ==
    ret' = [op |-> "search", name |-> collection_name, top_k |-> top_k,
            similarity_threshold |-> similarity_threshold,
            ok |-> error = "", error |-> error,
            search_result |-> search_result,
            results |-> search_results(search_result, similarity_threshold)]

\* search_similar(collection_name, query, top_k, None, similarity_threshold)
search_similar(p) ==
    /\ Free(p)
    /\ UNCHANGED <<texts, stdout_errors, EMBEDDING_MODELS, clock, collections, proc, started>>
    /\ \E collection_name \in Names, top_k \in 1..MaxTopK,
          similarity_threshold \in Scores, embedded \in BOOLEAN :
       LET metadata == get_collection_metadata(collections, collection_name)
       IN IF metadata = None
          THEN SearchReturn(collection_name, top_k, similarity_threshold,
                            "NotFound", << >>)
          ELSE IF ~embedded
          THEN SearchReturn(collection_name, top_k, similarity_threshold,
                            "RemoteCallFailure", << >>)
          ELSE \E search_result \in
                      IndexSearchAnswers(collections, collection_name, top_k) :
                  SearchReturn(collection_name, top_k, similarity_threshold,
                               "", search_result)

Next ==
    \/ Deliver
    \/ ChangeRegistryDimension
    \/ \E p \in Procs : create_collection(p)
    \/ \E p \in Procs : create_collection_metadata(p)
    \/ \E p \in Procs : create_collection_cleanup(p)
    \/ \E p \in Procs : delete_collection(p)
    \/ \E p \in Procs : insert_documents(p)
    \/ \E p \in Procs : insert_upsert(p)
    \/ \E p \in Procs : insert_retry(p)
    \/ \E p \in Procs : insert_count(p)
    \/ \E p \in Procs : insert_count_write(p)
    \/ \E p \in Procs : update_collection_dimensions(p)
    \/ \E p \in Procs : update_collection_dimensions_write(p)
    \/ \E p \in Procs : recalculate_collection_document_count(p)
    \/ \E p \in Procs : recalculate_read(p)
    \/ \E p \in Procs : recalculate_write(p)

Spec == Init /\ [][Next]_vars

(***************************************************************************)
(* The requests that maintain a collection between its creation and its    *)
(* deletion: inserts, recalculations and resyncs, over registry changes.   *)
(***************************************************************************)
MaintenanceNext ==
    \/ Deliver
    \/ ChangeRegistryDimension
    \/ \E p \in Procs : insert_documents(p)
    \/ \E p \in Procs : insert_upsert(p)
    \/ \E p \in Procs : insert_retry(p)
    \/ \E p \in Procs : insert_count(p)
    \/ \E p \in Procs : insert_count_write(p)
    \/ \E p \in Procs : update_collection_dimensions(p)
    \/ \E p \in Procs : update_collection_dimensions_write(p)
    \/ \E p \in Procs : recalculate_collection_document_count(p)
    \/ \E p \in Procs : recalculate_read(p)
    \/ \E p \in Procs : recalculate_write(p)

MaintenanceSpec == Init /\ [][MaintenanceNext]_vars

(***************************************************************************)
(* Searches, on each collection that create_collection and two batches of  *)
(* insert_documents (of n1 chunks at t1, then of n2 chunks at t2) can      *)
(* leave.                                                                  *)
(***************************************************************************)
Inserted(index, collection_name, base_timestamp, file_name, n) ==
    Upsert(index, collection_name,
           BuildPoints(base_timestamp, file_name, n, index[collection_name].size))

Populated(collection_name, embedding_model, t1, n1, t2, n2) ==
    LET registry == EMBEDDING_MODELS_initial
        absent == [c \in Names |-> AbsentCollection]
        allocated == CreateIndexCollection(absent, collection_name,
                                           registry[embedding_model].dimension)
        created == Upsert(allocated, collection_name,
                          <<MetadataPoint(registry, collection_name, embedding_model)>>)
        first == Inserted(created, collection_name, t1, "a.txt", n1)
    IN Inserted(first, collection_name, t2, "b.txt", n2)[collection_name]

SearchInit ==
    /\ EMBEDDING_MODELS = EMBEDDING_MODELS_initial
    /\ \E created \in BOOLEAN, t1 \in 1..MaxClock, n1 \in 0..MaxBatch,
          n2 \in 0..MaxBatch :
          \E t2 \in t1..MaxClock :
             /\ clock = t2
             /\ collections =
                    [c \in Names |->
                        IF created
                        THEN Populated(c, DEFAULT_EMBEDDING_MODEL, t1, n1, t2, n2)
                        ELSE AbsentCollection]
    /\ proc = [p \in Procs |-> Idle]
    /\ ret = NoRet
    /\ started = 0
    /\ stdout_errors \in StdoutErrors
    /\ texts = << >>

SearchNext ==
    \/ Deliver
    \/ \E p \in Procs : search_similar(p)

SearchSpec == SearchInit /\ [][SearchNext]_vars

(***************************************************************************)
(* Text safety: sanitize_text_simple, and debug_utils.                     *)
(*                                                                         *)
(* A text is the sequence of its characters.  A character is one of a few  *)
(* code points that the functions treat differently, or stands for a whole *)
(* ASCII phrase that the code substitutes.                                 *)
(***************************************************************************)
Letter == "a"            \* printable ASCII
Space == " "             \* ASCII whitespace, printable
Control == "U+0001"      \* an ASCII control character: not printable
Delete == "U+007F"       \* ord 127: not below 127
NonAscii == "U+00E9"     \* a valid character beyond ASCII
Surrogate == "U+D800"    \* a lone UTF-16 surrogate

Chars == {Letter, Space, Control, Delete, NonAscii, Surrogate}

\* The phrases the code substitutes for a text.
SubstitutedText == <<"Texto com problemas de charset foi substituido">>
TextWithCharsetIssues == <<"Text_with_charset_issues">>
EmptyDocument == <<"Documento vazio">>
EmptyBatchDocument == <<"Documento N vazio">>
SanitizedDocument == <<"Documento sanitizado">>
EmergencyPlaceholder == <<"Emergency_placeholder_N">>

Phrases ==
    {SubstitutedText[1], TextWithCharsetIssues[1], EmptyDocument[1],
     EmptyBatchDocument[1], SanitizedDocument[1], EmergencyPlaceholder[1]}

\* The texts of at most MaxLen characters.
Texts == UNION {[1..n -> Chars] : n \in 0..MaxLen}

\* text.encode('utf-8', 'strict') succeeds
EncodesStrictUtf8(text) == \A i \in DOMAIN text : text[i] # Surrogate

\* ord(c) < 127 and (c.isprintable() or c in '\n\r\t ')
IsBasicAscii(c) == c \in {Letter, Space} \cup Phrases

\* not text.strip()
IsBlank(text) == \A i \in DOMAIN text : text[i] = Space

sanitize_text_simple(text) ==
    IF EncodesStrictUtf8(text)
    THEN text
    ELSE LET ascii_text == SelectSeq(text, IsBasicAscii)
         IN IF IsBlank(ascii_text) THEN SubstitutedText ELSE ascii_text

\* debug_utils.ascii_fallback
ascii_fallback(text) ==
    LET ascii_text == SelectSeq(text, IsBasicAscii)
    IN IF ascii_text = << >> THEN TextWithCharsetIssues ELSE ascii_text

\* debug_utils.emergency_fallback
emergency_fallback(text) == EmergencyPlaceholder

\* CharsetDebugger.check_text_safety(text)["is_safe"]: the text encodes as
\* strict UTF-8 and holds no surrogate (json.dumps escapes and never fails)
is_safe(text) == EncodesStrictUtf8(text)

\* safe_text_operation(text, sanitize_text_simple, ascii_fallback): an unsafe
\* text goes to the fallback at once
safe_sanitization(text) ==
    IF is_safe(text) THEN sanitize_text_simple(text) ELSE ascii_fallback(text)

(***************************************************************************)
(* EmbeddingManager.  The provider answers a vector of the model's          *)
(* dimension, or raises; a vector is tagged with the text it embeds.       *)
(***************************************************************************)
PayloadCap == 2000   \* doc.page_content[:2000]

embed_query(dimension, text) == [dim |-> dimension, zero |-> FALSE, of |-> text]

zero_vector(dimension) == [dim |-> dimension, zero |-> TRUE, of |-> << >>]

\* get_embedding: the text is sanitized, then sent; when the call fails its
\* ASCII form is sent, and when that fails too the emergency placeholder.
\* attempt: the call that succeeds (1, 2 or 3), or 0 when all three fail.
get_embedding(text, dimension, attempt) ==
    LET sanitized == safe_sanitization(text)
        clean_text == IF IsBlank(sanitized) THEN EmptyDocument ELSE sanitized
        fallback == ascii_fallback(clean_text)
        safe_text == IF IsBlank(fallback) THEN SanitizedDocument ELSE fallback
        emergency_text == emergency_fallback(text)
        calls == <<clean_text, safe_text, emergency_text>>
    IN IF attempt = 0
       THEN [ok |-> FALSE, sent |-> calls, vector |-> zero_vector(0)]
       ELSE [ok |-> TRUE, sent |-> SubSeq(calls, 1, attempt),
             vector |-> embed_query(dimension, calls[attempt])]

\* A faulty variant: the zero vector always has the default dimension.
zero_vector_dimension_default(self_dimension, individual_embeddings) ==
    FallbackDimension

\* The dimension of the zero vector that stands for a failed item: that of
\* the first vector of the answer so far, the manager's when there is none.
zero_vector_dimension(self_dimension, individual_embeddings) ==
    IF individual_embeddings # << >>
    THEN individual_embeddings[1].dim
    ELSE self_dimension

\* get_embeddings: the texts are sanitized and sent in one call; when that
\* call fails each is given to get_embedding, and a zero vector stands for
\* an item that fails.
get_embeddings(batch, self_dimension, batch_ok, attempts) ==
    LET Clean(text) ==
            LET clean == safe_sanitization(text)
            IN IF IsBlank(clean) THEN EmptyBatchDocument ELSE clean
        clean_texts == [i \in DOMAIN batch |-> Clean(batch[i])]
        Item(i) == get_embedding(clean_texts[i], self_dimension, attempts[i])
        Answer(i, individual_embeddings) ==
            IF Item(i).ok THEN Item(i).vector
            ELSE zero_vector(zero_vector_dimension(self_dimension,
                                                   individual_embeddings))
        first == Answer(1, << >>)
    IN IF batch_ok
       THEN [sent |-> {clean_texts[i] : i \in DOMAIN batch},
             embeddings |-> [i \in DOMAIN batch |->
                                embed_query(self_dimension, clean_texts[i])]]
       ELSE [sent |-> {clean_texts[i] : i \in DOMAIN batch} \cup
                      UNION {{Item(i).sent[k] : k \in DOMAIN Item(i).sent} :
                                i \in DOMAIN batch},
             embeddings |-> [i \in DOMAIN batch |->
                                IF i = 1 THEN first ELSE Answer(i, <<first>>)]]

\* The content insert_documents stores in the payload of a chunk.
payload_content(page_content) ==
    SubSeq(page_content, 1, Min(Len(page_content), PayloadCap))

(***************************************************************************)
(* The text functions applied to bounded inputs.                           *)
(***************************************************************************)
\* The texts of a batch: a plain one, the empty one, one that does not encode.
BatchTexts == {<<Letter>>, << >>, <<Surrogate>>}

Batches == UNION {[1..n -> BatchTexts] : n \in 2..MaxTexts}

TextInit ==
    /\ EMBEDDING_MODELS = EMBEDDING_MODELS_initial
    /\ clock = 1
    /\ collections = [c \in Names |-> AbsentCollection]
    /\ proc = [p \in Procs |-> Idle]
    /\ ret = NoRet
    /\ started = 0
    /\ stdout_errors \in StdoutErrors
    /\ texts \in {<<text>> : text \in Texts} \cup Batches

TextUnchanged ==
    UNCHANGED <<texts, stdout_errors, EMBEDDING_MODELS, clock, collections, proc,
                started>>

sanitize_text ==
    /\ ret = NoRet
    /\ TextUnchanged
    /\ \E i \in DOMAIN texts :
          ret' = [op |-> "sanitize", text |-> texts[i],
                  value |-> sanitize_text_simple(texts[i])]

embed_one ==
    /\ ret = NoRet
    /\ TextUnchanged
    /\ \E i \in DOMAIN texts, model_name \in Models, attempt \in 0..3 :
          LET result == get_embedding(texts[i],
                                      EMBEDDING_MODELS[model_name].dimension,
                                      attempt)
          IN ret' = [op |-> "get_embedding", text |-> texts[i],
                     ok |-> result.ok,
                     sent |-> {result.sent[k] : k \in DOMAIN result.sent},
                     embedding |-> result.vector]

embed_many ==
    /\ ret = NoRet
    /\ TextUnchanged
    /\ \E model_name \in Models, batch_ok \in BOOLEAN,
          attempts \in [DOMAIN texts -> 0..3] :
          LET self_dimension == EMBEDDING_MODELS[model_name].dimension
              result == get_embeddings(texts, self_dimension, batch_ok, attempts)
          IN ret' = [op |-> "get_embeddings", texts |-> texts,
                     batch_ok |-> batch_ok, attempts |-> attempts,
                     self_dimension |-> self_dimension,
                     sent |-> result.sent, embeddings |-> result.embeddings]

insert_payload ==
    /\ ret = NoRet
    /\ TextUnchanged
    /\ \E i \in DOMAIN texts :
          ret' = [op |-> "payload", text |-> texts[i],
                  content |-> payload_content(texts[i])]

TextNext ==
    \/ Deliver
    \/ sanitize_text
    \/ embed_one
    \/ embed_many
    \/ insert_payload

TextSpec == TextInit /\ [][TextNext]_vars


(***************************************************************************)
(* Properties.                                                             *)
(***************************************************************************)
ChunkIds(index, c) == DOMAIN index[c].points \ {MetadataId}

HasMetadata(index, c) == get_collection_metadata(index, c) # None

DeclaredDimension(index, c) == get_collection_metadata(index, c).model_config.dimension

\* The handler of p holds the points of a batch.
Inserting(p) ==
    proc[p].pc \in {"insert_upsert", "insert_retry", "insert_count", "insert_count_write"}

BatchIds(p) == {proc[p].points[i].id : i \in DOMAIN proc[p].points}

\* insert_documents has passed its checks and built the points of the batch.
BatchBuilt(p) == proc[p].pc = "idle" /\ proc'[p].pc = "insert_upsert"

\* The batch upsert of p has succeeded.
BatchUpserted(p) == proc[p].pc = "insert_upsert" /\ proc'[p].pc = "insert_count"

\* The upsert of the k-th point alone, after the batch upsert failed, has
\* succeeded.
PointUpserted(p) ==
    /\ proc[p].pc = "insert_retry"
    /\ proc'[p].pc \in {"insert_retry", "insert_count"}
    /\ proc'[p] # proc[p]

\* The collection's declared dimension is not the registry's for the model.
DimensionMismatch(c, m) ==
    /\ HasMetadata(collections, c)
    /\ m \in DOMAIN EMBEDDING_MODELS
    /\ DeclaredDimension(collections, c) # EMBEDDING_MODELS[m].dimension

\* C1, as stated: in every reachable state every vector stored in a
\* collection, the chunk vectors written by insert included, has the length of
\* the collection's declared dimension.
C1_StoredVectorsHaveDeclaredDimension ==
    \A c \in Names :
        HasMetadata(collections, c) =>
            \A i \in DOMAIN collections[c].points :
                collections[c].points[i].vector.dim = DeclaredDimension(collections, c)

\* C1, amended: when insert_documents has passed its compatibility check,
\* every chunk vector of the batch it has built has the length of the
\* collection's declared dimension as the compatibility check read it.
\* (What is stored does not keep that equality: a later rewrite of the metadata after a
\* registry change moves either the declared dimension or the sentinel's
\* vector away from the vectors already stored.)
C1_InsertBuildsDeclaredDimension ==
    [][\A p \in Procs :
          BatchBuilt(p) =>
              \A i \in DOMAIN proc'[p].points :
                  proc'[p].points[i].vector.dim =
                      DeclaredDimension(collections, proc'[p].name)]_vars

\* An insert has returned true and a chunk vector it stored has the declared
\* length.
C1_Witness ==
    /\ ret.op = "insert" /\ ret.ok /\ ret.value
    /\ HasMetadata(collections, ret.name)
    /\ \E i \in ChunkIds(collections, ret.name) :
          /\ ~collections[ret.name].points[i].vector.zero
          /\ collections[ret.name].points[i].vector.dim =
                 DeclaredDimension(collections, ret.name)

\* C2, as stated: an insert on a collection whose declared dimension differs
\* from the model's registry dimension fails with IncompatibleDimension,
\* upserts no point and leaves the metadata unchanged.
C2_InsertOnMismatchFailsIncompatible ==
    [][/\ \A p \in Procs :
             BatchBuilt(p) => ~DimensionMismatch(proc'[p].name, proc'[p].model)
       /\ (started' # started /\ ret'.op = "insert"
              /\ DimensionMismatch(ret'.name, ret'.model)) =>
             (ret'.error = "IncompatibleDimension" /\ collections' = collections)]_vars

\* C3: for a collection with metadata and a registered model,
\* _check_dimension_compatibility answers compatible exactly when the model's
\* registry dimension is the collection's declared dimension; and when resync
\* has succeeded, it answers compatible for the collection's own model.
C3_CheckCompatibility ==
    /\ \A c \in Names, m \in DOMAIN EMBEDDING_MODELS :
          HasMetadata(collections, c) =>
              (check_dimension_compatibility(collections, EMBEDDING_MODELS, c, m).compatible
                  <=> DeclaredDimension(collections, c) = EMBEDDING_MODELS[m].dimension)
    /\ (ret.op = "resync" /\ ret.ok) =>
          check_dimension_compatibility(
              collections, EMBEDDING_MODELS, ret.name,
              get_collection_metadata(collections, ret.name).embedding_model).compatible

\* A resync that changed the declared dimension has succeeded and
\* _check_dimension_compatibility answers compatible for the collection's model.
C3_Witness ==
    /\ ret.op = "resync" /\ ret.ok
    /\ ret.old_dimension # ret.new_dimension
    /\ check_dimension_compatibility(
           collections, EMBEDDING_MODELS, ret.name,
           get_collection_metadata(collections, ret.name).embedding_model).compatible
    /\ DeclaredDimension(collections, ret.name) = ret.new_dimension

\* C4: the ids of one batch are pairwise distinct and none is the reserved
\* id 0, so that the point of id 0 always holds the metadata.
C4_BatchIdsDistinctNotSentinel ==
    /\ \A p \in Procs : \A i, j \in DOMAIN proc[p].points :
          /\ proc[p].points[i].id # MetadataId
          /\ i # j => proc[p].points[i].id # proc[p].points[j].id
    /\ \A c \in Names :
          HasMetadata(collections, c) =>
              "embedding_model" \in DOMAIN get_collection_metadata(collections, c)

\* A batch of two or more points has been stored beside the metadata.
C4_Witness ==
    \E p \in Procs :
        /\ proc[p].pc = "insert_count"
        /\ Len(proc[p].points) >= 2
        /\ HasMetadata(collections, proc[p].name)
        /\ BatchIds(p) \subseteq ChunkIds(collections, proc[p].name)

\* C5, as stated: two batches for one collection whose base timestamps
\* differ have disjoint sets of ids.
C5_BatchesAtDifferentTimesDisjoint ==
    \A p, q \in Procs :
        (/\ p # q
         /\ Inserting(p) /\ Inserting(q)
         /\ proc[p].name = proc[q].name
         /\ proc[p].base_timestamp # proc[q].base_timestamp) =>
            BatchIds(p) \cap BatchIds(q) = {}

\* The chunks stored for file f in collection c are those of a batch of n
\* documents: the chunk indices 0..n-1, each once.
StoredOnce(c, f, n) ==
    LET mine == {i \in ChunkIds(collections, c) :
                    collections[c].points[i].payload.file_name_safe = f}
    IN /\ Cardinality(mine) = n
       /\ {collections[c].points[i].payload.chunk_index : i \in mine} = 0..(n - 1)

BatchFile(p) == proc[p].points[1].payload.file_name_safe

C7_UnknownModelChangesNothing ==
    [][(ret'.op = "create" /\ ret'.error = "UnknownModel") =>
          collections' = collections]_vars

\* C8: a search answers only points whose score * 100 is at least
\* threshold * 100, at most top_k of them, and for the same answer of the
\* index a higher threshold never gives more results.
C8_SearchThresholdAndTopK ==
    (ret.op = "search" /\ ret.ok) =>
        /\ \A k \in DOMAIN ret.results :
               ret.results[k].score * 100 >= ret.similarity_threshold * 100
        /\ Len(ret.results) <= ret.top_k
        /\ \A t \in Scores :
               t >= ret.similarity_threshold =>
                   Len(search_results(ret.search_result, t)) <= Len(ret.results)

\* A search got top_k points from the index and the threshold removed some
\* of them, not all.
C8_Witness ==
    /\ ret.op = "search" /\ ret.ok
    /\ Len(ret.search_result) = ret.top_k
    /\ Len(ret.results) >= 1
    /\ Len(ret.results) < Len(ret.search_result)

\* The ids of the chunks list_collection_documents lists.
ListedChunkIds(documents) ==
    UNION {LET document == documents[f]
           IN {document.chunks[k].chunk_id : k \in DOMAIN document.chunks} :
              f \in DOMAIN documents}

\* C9: in every reachable state of a collection that holds the metadata
\* point, that point is not among the points a search ranks, and it is not
\* counted or listed as a chunk or a document by list_collections,
\* list_collection_documents or the recalculation of the count: what they
\* count and list are chunk points and the file names of chunk points.
C9_SentinelNeverEnumerated ==
    \A c \in Names :
        HasMetadata(collections, c) =>
            LET chunks == ChunkIds(collections, c)
                file_names == {collections[c].points[i].payload.file_name_safe :
                                  i \in chunks}
                counts == get_real_document_count(collections, c)
                documents == unique_documents(collections, c, ListLimit)
            IN /\ MetadataId \notin SearchFilter(collections, c)
               /\ counts.chunks <= Cardinality(chunks)
               /\ counts.documents <= Cardinality(file_names)
               /\ RealCount(Scroll(collections, c, ScrollDefaultLimit))
                      <= Cardinality(chunks)
               /\ DOMAIN documents \subseteq file_names
               /\ ListedChunkIds(documents) \subseteq chunks

\* A collection holds chunks beside a metadata point that was rewritten with
\* a count, and the enumerations answer the chunks only.
C9_Witness ==
    \E c \in Names :
        /\ HasMetadata(collections, c)
        /\ get_collection_metadata(collections, c).document_count > 0
        /\ Cardinality(ChunkIds(collections, c)) >= 2
        /\ SearchFilter(collections, c) = ChunkIds(collections, c)
        /\ get_real_document_count(collections, c).chunks =
               Cardinality(ChunkIds(collections, c))
        /\ ListedChunkIds(list_collection_documents(collections, c, ListLimit)) =
               ChunkIds(collections, c)

ListedChunkCount(documents) ==
    LET Sum[fs \in SUBSET DOMAIN documents] ==
            IF fs = {} THEN 0
            ELSE LET f == CHOOSE g \in fs : TRUE
                 IN Len(documents[f].chunks) + Sum[fs \ {f}]
    IN Sum[DOMAIN documents]

IsSortedByChunkIndex(chunks) ==
    \A i, j \in DOMAIN chunks :
        i < j => chunks[i].chunk_index <= chunks[j].chunk_index

\* C11: whatever limit the request gives, list_collection_documents answers
\* documents whose chunks together are exactly the chunk points of the
\* collection, each listed once, and every document's chunks are sorted by
\* chunk_index.
C11_ListDocumentsPartitions ==
    \A c \in Names, limit \in RequestLimits :
        collections[c].exists =>
            LET documents == list_collection_documents(collections, c, limit)
            IN /\ ListedChunkIds(documents) = ChunkIds(collections, c)
               /\ ListedChunkCount(documents) = Cardinality(ChunkIds(collections, c))
               /\ \A f \in DOMAIN documents :
                      IsSortedByChunkIndex(documents[f].chunks)

\* C12: when delete_collection returns, either the index call succeeded, the
\* collection is gone from the index and True is answered, also when the
\* deletion of the blobs failed; or the index call failed, its error is
\* raised, the index is as it was and the blobs were not touched.
C12_DeleteIndexFirstBlobsBestEffort ==
    [][(ret'.op = "delete") =>
          /\ ret'.ok => /\ ~collections'[ret'.name].exists
                        /\ ret'.files \in FileOutcomes
          /\ ret'.files = "failed" => ret'.ok
          /\ ~ret'.ok => /\ ret'.error = "RemoteCallFailure"
                         /\ ret'.files = "not attempted"
                         /\ collections' = collections]_vars

\* delete_collection, invoked after an earlier request, deleted the collection
\* from the index, the deletion of its blobs failed, and it answered True.
C12_Witness ==
    /\ ret.op = "delete" /\ ret.ok /\ ret.files = "failed"
    /\ ~collections[ret.name].exists
    /\ started >= 2

\* C13: sanitize_text_simple answers, for every text, a text that is not
\* empty and encodes as strict UTF-8.
C13_SanitizeNonEmptyEncodable ==
    (ret.op = "sanitize") =>
        /\ ret.value # << >>
        /\ EncodesStrictUtf8(ret.value)

\* C14: for a text that holds a lone surrogate, sanitize_text_simple
\* answers the text without its surrogates, every other character kept in
\* its place.
C14_SanitizeRemovesOnlySurrogates ==
    LET NotSurrogate(c) == c # Surrogate
    IN (ret.op = "sanitize" /\ ~EncodesStrictUtf8(ret.text)) =>
           ret.value = SelectSeq(ret.text, NotSurrogate)

\* C15: get_embeddings answers one vector for each text, in the order of the
\* texts, all of one length: the i-th vector embeds a text sent for the i-th
\* text, or, when the batch call and then the i-th item failed, is a zero
\* vector; a batch call that succeeds answers no zero vector.  (The provider
\* is taken to answer vectors of the model's registry dimension.)
C15_EmbedManyOnePerInputEqualLength ==
    ret.op = "get_embeddings" =>
        /\ Len(ret.embeddings) = Len(ret.texts)
        /\ \A i, j \in DOMAIN ret.embeddings :
              ret.embeddings[i].dim = ret.embeddings[j].dim
        /\ \A i \in DOMAIN ret.texts :
              LET clean == safe_sanitization(ret.texts[i])
                  first == IF IsBlank(clean) THEN EmptyBatchDocument ELSE clean
                  item == get_embedding(first, ret.self_dimension, ret.attempts[i])
              IN IF ret.batch_ok
                 THEN /\ ~ret.embeddings[i].zero
                      /\ ret.embeddings[i].of = first
                 ELSE IF ret.attempts[i] = 0
                      THEN ret.embeddings[i].zero
                      ELSE /\ ~ret.embeddings[i].zero
                           /\ \E k \in DOMAIN item.sent :
                                 ret.embeddings[i].of = item.sent[k]

\* The batch call failed on three texts of a model whose dimension is not the
\* default; the first item was embedded, the second failed and is a zero
\* vector, the third was embedded.
C15_Witness ==
    /\ ret.op = "get_embeddings"
    /\ ~ret.batch_ok
    /\ Len(ret.texts) = 3
    /\ ret.self_dimension # FallbackDimension
    /\ ~ret.embeddings[1].zero
    /\ ret.embeddings[2].zero
    /\ ~ret.embeddings[3].zero
    /\ ret.embeddings[1].of # ret.embeddings[3].of

\* C16, as stated: in every reachable state a collection that holds chunk
\* points exists and holds the sentinel metadata create writes, so that no
\* chunk is written to a collection that is absent, deleted, or not yet
\* created.
C16_ChunksOnlyInCreatedCollections ==
    \A c \in Names :
        ChunkIds(collections, c) # {} =>
            /\ collections[c].exists
            /\ HasMetadata(collections, c)

\* C17, as stated: every text get_embedding and get_embeddings send to the
\* embedding provider encodes as strict UTF-8, and the content insert_documents
\* stores in a chunk's payload encodes as strict UTF-8, is the sanitized form
\* of the chunk's text, and is no longer than the payload cap.
C17_TextsCrossingBoundarySanitized ==
    /\ ret.op \in {"get_embedding", "get_embeddings"} =>
          \A text \in ret.sent : EncodesStrictUtf8(text)
    /\ ret.op = "payload" =>
          /\ EncodesStrictUtf8(ret.content)
          /\ Len(ret.content) <= PayloadCap
          /\ ret.content = payload_content(sanitize_text_simple(ret.text))

\* C18, as stated: on a collection the index does not hold, search_similar,
\* list_collection_documents, _get_collection_metadata and get_collection_info
\* end normally with an empty or absent answer; none of them raises.
C18_AbsentCollectionReportedNotRaised ==
    /\ (ret.op = "search" /\ ~collections[ret.name].exists) =>
          (ret.ok /\ ret.results = << >>)
    /\ \A c \in Names :
          ~collections[c].exists =>
              /\ \A limit \in RequestLimits :
                    /\ ListDocumentsReturn(collections, c, limit).ok
                    /\ ListDocumentsReturn(collections, c, limit).documents = << >>
              /\ get_collection_metadata(collections, c) = None
              /\ get_collection_info(collections, c) = None

\* C19, as stated: for a collection with metadata and a model id that is no
\* key of the registry, _check_dimension_compatibility reports no error and
\* takes the default dimension (1536) as the model's current dimension.
C19_UnknownModelFallsBackToDefault ==
    \A c \in Names :
        HasMetadata(collections, c) =>
            LET result == check_dimension_compatibility(collections, EMBEDDING_MODELS,
                                                        c, UnknownModelId)
            IN /\ "error" \notin DOMAIN result
               /\ result.current_dimensions = FallbackDimension
               /\ result.compatible <=>
                      DeclaredDimension(collections, c) = FallbackDimension

\* C20, as stated: when create_collection returns true, the collection holds
\* exactly one point, the sentinel (id 0), whose payload records the model
\* given, that model's registry configuration and document_count 0.
C20_CreateLeavesExactlySentinel ==
    [][(ret = NoRet /\ ret'.op = "create" /\ ret'.ok) =>
          /\ collections'[ret'.name].exists
          /\ DOMAIN collections'[ret'.name].points = {MetadataId}
          /\ get_collection_metadata(collections', ret'.name) =
                 [name |-> ret'.name,
                  embedding_model |-> ret'.model,
                  document_count |-> 0,
                  model_config |-> EMBEDDING_MODELS[ret'.model]]]_vars

\* C21: a create_collection that fails attempts to delete the collection and
\* then raises the exception it caught: the caller is given the original
\* error whether or not the deletion succeeded, and when the deletion
\* succeeded the index holds no collection of that name, so that none is left
\* without metadata.
C21_CreateFailureCleansUpAndSurfacesOriginal ==
    [][\A p \in Procs :
          (proc[p].pc = "create_cleanup" /\ proc'[p].pc = "idle") =>
              /\ ret'.op = "create" /\ ~ret'.ok
              /\ ret'.error = proc[p].error
              /\ ret'.error \in {"UnknownModel", "RemoteCallFailure"}
              /\ ret'.cleanup = "deleted" =>
                    /\ ~collections'[ret'.name].exists
                    /\ ~HasMetadata(collections', ret'.name)
              /\ ret'.cleanup = "failed" => collections' = collections]_vars

\* create_collection allocated the collection, its metadata upsert failed,
\* the cleanup deleted the collection and the caller was given the upsert's
\* failure.
C21_Witness ==
    /\ ret.op = "create" /\ ~ret.ok
    /\ ret.allocated
    /\ ret.cleanup = "deleted"
    /\ ret.error = "RemoteCallFailure"
    /\ ~collections[ret.name].exists

\* The batch upsert of p has failed.
BatchUpsertFailed(p) ==
    /\ proc[p].pc = "insert_upsert"
    /\ proc'[p].pc \notin {"insert_upsert", "insert_count"}

\* The upsert of a point alone has failed.
PointUpsertFailed(p) == proc[p].pc = "insert_retry" /\ proc'[p].pc = "idle"

\* C22, as stated: whenever the batch upsert of an insert fails, the batch is
\* upserted again point by point before any error is raised.
C22_FailedBatchAlwaysRetried ==
    [][\A p \in Procs :
          BatchUpsertFailed(p) =>
              (proc'[p].pc = "insert_retry" /\ ret' = NoRet)]_vars

\* C22, amended: when the upsert of a batch of several points fails, the
\* points are upserted one by one from the first, each upsert storing that
\* point alone; the first one that fails raises, writes nothing, and ends the
\* insert before the count update.  The failed upsert of a batch of one point
\* raises at once and writes nothing.
C22_RetryCommitsPrefixThenRaises ==
    [][\A p \in Procs :
          /\ BatchUpsertFailed(p) =>
                /\ collections' = collections
                /\ IF Len(proc[p].points) > 1
                   THEN /\ proc'[p].pc = "insert_retry"
                        /\ proc'[p].k = 1
                        /\ ret' = NoRet
                   ELSE /\ proc'[p].pc = "idle"
                        /\ ret'.op = "insert" /\ ~ret'.ok /\ ret'.committed = 0
          /\ PointUpserted(p) =>
                /\ collections' = Upsert(collections, proc[p].name,
                                         <<proc[p].points[proc[p].k]>>)
                /\ ret' = NoRet
                /\ IF proc[p].k < Len(proc[p].points)
                   THEN proc'[p].pc = "insert_retry" /\ proc'[p].k = proc[p].k + 1
                   ELSE proc'[p].pc = "insert_count"
          /\ PointUpsertFailed(p) =>
                /\ collections' = collections
                /\ ret'.op = "insert" /\ ~ret'.ok
                /\ ret'.committed = proc[p].k - 1]_vars

\* The upsert of a batch of two points failed, the first point was stored
\* alone, the upsert of the second failed: the insert raised, the collection
\* holds the first point and its document_count is still 0.
C22_Witness ==
    /\ ret.op = "insert" /\ ~ret.ok
    /\ ret.committed = 1
    /\ HasMetadata(collections, ret.name)
    /\ Cardinality(ChunkIds(collections, ret.name)) = 1
    /\ get_collection_metadata(collections, ret.name).document_count = 0

\* The insert of p ends by returning True.
InsertSucceeds(p) ==
    /\ proc[p].pc \in {"insert_count", "insert_count_write"}
    /\ proc'[p].pc = "idle"
    /\ ret'.op = "insert" /\ ret'.value

\* C23, as stated: when an insert of n chunks that is the only request served
\* returns True, the collection's document_count is n more than it was when
\* the insert read it.
C23_InsertAddsBatchSizeToCount ==
    [][\A p \in Procs :
          (InsertSucceeds(p) /\ started = 1
              /\ HasMetadata(collections, proc[p].name)) =>
             LET before == IF proc[p].pc = "insert_count_write"
                           THEN proc[p].metadata.document_count
                           ELSE get_collection_metadata(collections,
                                                        proc[p].name).document_count
             IN get_collection_metadata(collections', proc[p].name).document_count
                    = before + Len(proc[p].points)]_vars

\* _recalculate_collection_document_count of p ends.
RecalculateEnds(p) ==
    /\ proc[p].pc \in {"recalculate_read", "recalculate_write"}
    /\ proc'[p].pc = "idle"

\* C24, as stated: when a recalculate ends on a collection with metadata that
\* no other request is writing to (the others are idle and the chunks are
\* those it counted), the collection's document_count is the number of its
\* points other than the metadata point.
C24_RecalculateWritesTrueCount ==
    [][\A p \in Procs :
          (RecalculateEnds(p)
              /\ \A q \in Procs \ {p} : proc[q].pc = "idle"
              /\ HasMetadata(collections, proc[p].name)
              /\ proc[p].count = Cardinality(ChunkIds(collections, proc[p].name))) =>
             get_collection_metadata(collections', proc[p].name).document_count
                 = Cardinality(ChunkIds(collections', proc[p].name))]_vars

\* The handler of p takes the step that upserts the metadata point.
MetadataWriteStep(p) ==
    /\ proc[p].pc \in {"create_metadata", "insert_count_write", "recalculate_write",
                       "resync_write"}
    /\ proc'[p] # proc[p]

\* The metadata point of c is under a zero vector of the length the registry
\* gives for the collection's model.
SentinelHasCurrentDimension(index, registry, c) ==
    /\ HasMetadata(index, c)
    /\ index[c].points[MetadataId].vector =
           ZeroVector(registry[get_collection_metadata(index, c).embedding_model].dimension)

ResyncSucceeds(p) ==
    /\ proc[p].pc = "resync_write"
    /\ proc'[p].pc = "idle"
    /\ ret'.op = "resync" /\ ret'.ok

\* The points of c other than the metadata point are the same in both indexes.
SameChunks(index, other, c) ==
    /\ ChunkIds(index, c) = ChunkIds(other, c)
    /\ \A i \in ChunkIds(index, c) : index[c].points[i] = other[c].points[i]

C27_FailedCreateKeepsExistingCollection ==
    [][\A p \in Procs :
          (proc[p].pc = "create_cleanup" /\ proc'[p].pc = "idle"
              /\ ~proc[p].allocated
              /\ collections[proc[p].name].exists) =>
             collections'[proc[p].name] = collections[proc[p].name]]_vars

CountWriteStep(p) ==
    /\ proc[p].pc \in {"insert_count_write", "recalculate_write"}
    /\ proc'[p] # proc[p]

\* C29, as stated: the upsert of a count update changes nothing of the
\* collection's metadata but document_count; the model_config a resync has
\* written since the count update read the metadata stays as resync wrote it.
C29_CountUpdateKeepsDeclaredDimension ==
    [][\A p \in Procs :
          (CountWriteStep(p) /\ HasMetadata(collections, proc[p].name)) =>
             LET before == get_collection_metadata(collections, proc[p].name)
                 after == get_collection_metadata(collections', proc[p].name)
             IN /\ after # None
                /\ after = [before EXCEPT !.document_count = after.document_count]]_vars

=============================================================================
